---- MODULE Spec2Model ----
(***************************************************************************)
(* A model of udevmonitor.py: the USBMonitor event handlers, the bounded   *)
(* dev_queue, the USBDrive record and the Poller thread.                   *)
(*                                                                         *)
(* Strings the program inspects character by character (device nodes,     *)
(* lines of /proc/mounts, mount locations) are sequences of one-character  *)
(* strings, so that str.startswith, str.split and str.replace are computed *)
(* as Python computes them; so are the property values of a device.        *)
(* Python's None is the empty sequence: every value the program compares   *)
(* with None is a record or a non-empty string.                            *)
(***************************************************************************)
EXTENDS Integers, Sequences, FiniteSets, TLC

VARIABLES
    dev_queue,      \* the module-level Queue(maxsize=10): a sequence of [action, device]
    mon,            \* the USBMonitor object and the position of its producing thread
    mon_log,        \* notifications _show_notification emitted for the latest raw event
    lastRaw,        \* the raw event most recently handed to the monitor's handler (None at start)
    nevents,        \* number of raw events the hotplug subsystem has delivered so far
    device_avail,   \* Poller.device_avail, in dict insertion order: a sequence of USBDrive
    poller,         \* the Poller thread: position, _destruct flag, loop iterator, uncaught exception
    drive_log,      \* notifications notify_change emitted by the latest USBDrive call
    hist,           \* history (not program state): the last event queued per node, the exception
                    \* the latest refresh raised, the nodes whose sampling call has failed
    mtab,           \* /proc/mounts: a sequence of lines
    fs,             \* the filesystem: [dirs, mounts], sets of paths
    drive,          \* a USBDrive object driven directly by calls (None before construction)
    ret             \* what the latest direct call on `drive` returned or raised

vars == << dev_queue, mon, mon_log, lastRaw, nevents, device_avail, poller,
           drive_log, hist, mtab, fs, drive, ret >>

None == << >>

\* no exception raised
NoExc == "none"

----------------------------------------------------------------------------
(* Bounds of the model. *)

\* raw hotplug events delivered in one behaviour of the whole system
MaxEvents == 2
\* raw hotplug events delivered in one behaviour of the queue-capacity specification
MaxBurst == 12
\* raw hotplug events delivered in one behaviour of the monitor specification
MaxRaw == 2
\* the per-record count of successful samples saturates here
SampleCap == 2
\* lines of /proc/mounts at a time
MaxMtab == 2

(* Program constants. *)

\* dev_queue: Queue = Queue(maxsize=10)
QueueMax == 10

----------------------------------------------------------------------------
(* Strings. *)

sdb1 == <<"/", "d", "e", "v", "/", "s", "d", "b", "1">>
sdb10 == <<"/", "d", "e", "v", "/", "s", "d", "b", "1", "0">>

\* "/dev/sdb1 /media/My\040Drive ext4 rw 0 0\n"
LineSdb1 == <<"/", "d", "e", "v", "/", "s", "d", "b", "1", " ", "/", "m", "e", "d", "i", "a",
              "/", "M", "y", "\\", "0", "4", "0", "D", "r", "i", "v", "e", " ", "e", "x", "t",
              "4", " ", "r", "w", " ", "0", " ", "0", "\n">>
\* "/dev/sdb10 /mnt/usb vfat rw 0 0\n"
LineSdb10 == <<"/", "d", "e", "v", "/", "s", "d", "b", "1", "0", " ", "/", "m", "n", "t", "/",
               "u", "s", "b", " ", "v", "f", "a", "t", " ", "r", "w", " ", "0", " ", "0", "\n">>
\* "/dev/sdb1\n": a line with a single field
LineBare == <<"/", "d", "e", "v", "/", "s", "d", "b", "1", "\n">>
\* "/dev/sda2 / ext4 rw 0 0\n"
LineRoot == <<"/", "d", "e", "v", "/", "s", "d", "a", "2", " ", "/", " ", "e", "x", "t", "4",
              " ", "r", "w", " ", "0", " ", "0", "\n">>

\* "/media/My Drive"
MyDrive == <<"/", "m", "e", "d", "i", "a", "/", "M", "y", " ", "D", "r", "i", "v", "e">>
\* "/mnt/usb"
MntUsb == <<"/", "m", "n", "t", "/", "u", "s", "b">>
\* "/"
RootDir == <<"/">>

\* property values: ID_BUS, ID_FS_TYPE, ID_FS_LABEL
BusUsb == <<"u", "s", "b">>
BusAta == <<"a", "t", "a">>
FsExt4 == <<"e", "x", "t", "4">>
FsVfat == <<"v", "f", "a", "t">>

\* str.startswith
startswith(s, prefix) ==
    /\ Len(prefix) <= Len(s)
    /\ SubSeq(s, 1, Len(prefix)) = prefix

\* str.split(sep) for a one-character separator: the fields between separators,
\* empty fields included (the string is evaluated once, as s)
RECURSIVE split(_, _)
split(str, sep) ==
    CHOOSE fields \in
        { IF \A i \in 1..Len(s) : s[i] # sep
          THEN << s >>
          ELSE LET k == CHOOSE i \in 1..Len(s) :
                            /\ s[i] = sep
                            /\ \A j \in 1..(i - 1) : s[j] # sep
               IN  << SubSeq(s, 1, k - 1) >> \o split(SubSeq(s, k + 1, Len(s)), sep)
          : s \in {str} } : TRUE

\* str.replace(old, new): non-overlapping occurrences, left to right (the string is
\* evaluated once, as s)
RECURSIVE replace(_, _, _)
replace(str, old, new) ==
    CHOOSE replaced \in
        { IF s = << >> THEN << >>
          ELSE IF startswith(s, old)
               THEN new \o replace(SubSeq(s, Len(old) + 1, Len(s)), old, new)
               ELSE << s[1] >> \o replace(SubSeq(s, 2, Len(s)), old, new)
          : s \in {str} } : TRUE

\* the first whitespace-delimited field of a line
FirstField(l) == split(l, " ")[1]

----------------------------------------------------------------------------
(* The filesystem as the program queries it. *)

\* os.path.isdir
isdir(f, p) == p \in f.dirs
\* os.path.ismount
ismount(f, p) == p \in f.mounts
\* Path.exists
exists(f, p) == p \in f.dirs

----------------------------------------------------------------------------
(* Device descriptors (pyudev.Device) and the USBMonitor handlers. *)

\* ID_FS_LABEL of the partition behind a device node
LabelOf(node) ==
    IF node = sdb1 THEN <<"M", "y", " ", "D", "r", "i", "v", "e">>
    ELSE IF node = sdb10 THEN <<"U", "S", "B">>
    ELSE None

\* Device.action of a device that did not come from the monitor (pyudev gives None;
\* the program never reads it for such a device except to log it)
NoAction == "none"

\* a pyudev Device as the program reads it: device_node, action, properties.get(...)
Device(node, action, fstype, bus) ==
    [ device_node |-> node, action |-> action, ID_FS_TYPE |-> fstype, ID_BUS |-> bus,
      ID_FS_LABEL |-> LabelOf(node) ]

\* USBMonitor._show_notification: the message logged; it reads dev.action, not `action`
show_notification(action, dev) ==
    [ Action |-> dev.action, ID_FS_LABEL |-> dev.ID_FS_LABEL, ID_BUS |-> dev.ID_BUS ]

\* check_action without the test of the action
check_action_any(action, device) == << [action |-> action, device |-> device] >>

\* check_action: the items it puts on dev_queue (none, or one)
check_action(action, device) ==
    IF action \in {"add", "remove"}
    THEN << [action |-> action, device |-> device] >>
    ELSE << >>

\* what a handler did with one raw event: the notifications emitted and the items
\* handed to dev_queue.put
Handled(notes, puts) == [notes |-> notes, puts |-> puts]

\* the body of the synchronous loop with the notification moved before the bus test
start_polling_event_notifies_first(only_removable, dev) ==
    IF dev # None /\ dev.ID_FS_TYPE # None
    THEN IF only_removable /\ ~(dev.ID_BUS = BusUsb)
         THEN Handled(<< show_notification(dev.action, dev) >>, << >>)
         ELSE Handled(<< show_notification(dev.action, dev) >>, check_action(dev.action, dev))
    ELSE Handled(<< >>, << >>)

\* the body of the synchronous loop for one polled device (start_polling, else branch)
start_polling_event(only_removable, dev) ==
    IF dev # None /\ dev.ID_FS_TYPE # None
    THEN IF only_removable /\ ~(dev.ID_BUS = BusUsb)
         THEN Handled(<< >>, << >>)
         ELSE Handled(<< show_notification(dev.action, dev) >>, check_action(dev.action, dev))
    ELSE Handled(<< >>, << >>)

\* log_event(observer, device) of the pyudev.glib MonitorObserver variant
log_event_glib(only_removable, device) ==
    IF device # None /\ device.ID_FS_TYPE # None
    THEN IF only_removable /\ ~(device.ID_BUS = BusUsb)
         THEN Handled(<< >>, << >>)
         ELSE Handled(<< show_notification(device.action, device) >>,
                      check_action(device.action, device))
    ELSE Handled(<< >>, << >>)

\* log_event(observer, action, device) of the GUDevMonitorObserver variant
log_event_gudev(only_removable, action, device) ==
    IF device # None /\ device.ID_FS_TYPE # None
    THEN IF only_removable /\ ~(device.ID_BUS = BusUsb)
         THEN Handled(<< >>, << >>)
         ELSE Handled(<< show_notification(action, device) >>, check_action(action, device))
    ELSE Handled(<< >>, << >>)

\* log_event(action, device) of the pyudev.MonitorObserver variant: the notification
\* and check_action are outside the ID_FS_TYPE test
log_event_native(only_removable, action, device) ==
    IF /\ device # None /\ device.ID_FS_TYPE # None
       /\ only_removable /\ ~(device.ID_BUS = BusUsb)
    THEN Handled(<< >>, << >>)
    ELSE Handled(<< show_notification(action, device) >>, check_action(action, device))

\* the handler of the delivery mechanism in use
handle(mode, only_removable, dev) ==
    CASE mode = "sync"   -> start_polling_event(only_removable, dev)
      [] mode = "glib"   -> log_event_glib(only_removable, dev)
      [] mode = "gudev"  -> log_event_gudev(only_removable, dev.action, dev)
      [] mode = "native" -> log_event_native(only_removable, dev.action, dev)

Modes == {"sync", "glib", "gudev", "native"}

----------------------------------------------------------------------------
(* USBDrive. *)

\* what shutil.disk_usage can return: (total, used, free)
Usage(total, free) == [total |-> total, used |-> total - free, free |-> free]

\* the result of a USBDrive call: the object afterwards, the value returned, the
\* exception raised (NoExc when it returned), the notifications emitted
Result(usb, value, exc, notes) == [usb |-> usb, ret |-> value, exc |-> exc, notes |-> notes]

\* the lines 193..203 of get_device_mount_point, from line i of the file on
RECURSIVE scan_mounts(_, _, _, _)
scan_mounts(usb, mt, f, i) ==
    IF i > Len(mt) THEN Result(usb, None, NoExc, << >>)
    ELSE IF startswith(mt[i], usb.device.device_node)
         THEN LET parts == split(mt[i], " ")
              IN  IF Len(parts) < 2
                  THEN Result(usb, None, "IndexError", << >>)
                  ELSE LET location == replace(parts[2], <<"\\", "0", "4", "0">>, <<" ">>)
                       IN  IF isdir(f, location) /\ ismount(f, location)
                           THEN Result([usb EXCEPT !.mount_point = location,
                                                   !.is_mounted = TRUE],
                                       None, NoExc, << >>)
                           ELSE scan_mounts(usb, mt, f, i + 1)
         ELSE scan_mounts(usb, mt, f, i + 1)

\* USBDrive.get_device_mount_point against the mount table mt and the filesystem f
get_device_mount_point(usb, mt, f) ==
    scan_mounts([usb EXCEPT !.mount_point = None], mt, f, 1)

\* USBDrive.__init__ with storage_info initialised to an all-zero usage
USBDrive_zero_usage(device, mt, f) ==
    get_device_mount_point(
        [ device |-> device, storage_info |-> [total |-> 0, used |-> 0, free |-> 0],
          prev_storage_info |-> None,
          ID_FS_LABEL |-> device.ID_FS_LABEL, is_mounted |-> FALSE, mount_point |-> None,
          samples |-> 0 ],
        mt, f)

\* USBDrive.__init__; samples counts the successful samples of the object (history)
USBDrive(device, mt, f) ==
    get_device_mount_point(
        [ device |-> device, storage_info |-> None, prev_storage_info |-> None,
          ID_FS_LABEL |-> device.ID_FS_LABEL, is_mounted |-> FALSE, mount_point |-> None,
          samples |-> 0 ],
        mt, f)

\* what shutil.disk_usage does when it is called: it returns a usage, or raises
Returns(usage) == [raises |-> NoExc, value |-> usage]
Raises(exc) == [raises |-> exc, value |-> None]

\* the test that opens get_storage_information (lines 213, 214): TRUE when the
\* method returns None at once
no_mount_path(usb, f) == usb.mount_point = None \/ ~exists(f, usb.mount_point)

\* the rest of get_storage_information (lines 218..220); `outcome` is what
\* shutil.disk_usage does
sample_storage(usb, outcome) ==
    LET shifted == [usb EXCEPT !.prev_storage_info = usb.storage_info]
    IN  IF outcome.raises # NoExc
        THEN Result(shifted, None, outcome.raises, << >>)
        ELSE Result([shifted EXCEPT !.storage_info = outcome.value,
                                    !.samples = IF @ < SampleCap THEN @ + 1 ELSE @],
                    outcome.value, NoExc, << >>)

\* what shutil.disk_usage(path) does against the filesystem f: FileNotFoundError when
\* the path is gone, else one of `outcomes`
disk_usage(f, path, outcomes) ==
    IF exists(f, path) THEN outcomes ELSE { Raises("FileNotFoundError") }

\* notify_change with the test of the sign inverted
notify_change_swapped(usb, size) ==
    IF size > 0
    THEN [ID_FS_LABEL |-> usb.ID_FS_LABEL, text |-> "Size Removed", size |-> size]
    ELSE [ID_FS_LABEL |-> usb.ID_FS_LABEL, text |-> "Size Added", size |-> -size]

\* USBDrive.notify_change: the message logged (the size is what convert_bytes formats)
notify_change(usb, size) ==
    IF size < 0
    THEN [ID_FS_LABEL |-> usb.ID_FS_LABEL, text |-> "Size Removed", size |-> -size]
    ELSE [ID_FS_LABEL |-> usb.ID_FS_LABEL, text |-> "Size Added", size |-> size]

\* USBDrive.get_free_space_changes
get_free_space_changes(usb, notify_changes) ==
    IF usb.prev_storage_info = None \/ usb.storage_info = None
    THEN Result(usb, 0, NoExc, << >>)
    ELSE LET change_in_freespace == usb.prev_storage_info.free - usb.storage_info.free
         IN  Result(usb, change_in_freespace, NoExc,
                    IF notify_changes /\ change_in_freespace # 0
                    THEN << notify_change(usb, change_in_freespace) >>
                    ELSE << >>)

----------------------------------------------------------------------------
(* Poller: the registry operations. *)

Nodes == {sdb1, sdb10}

\* the keys of device_avail
keys(avail) == { avail[i].device.device_node : i \in 1..Len(avail) }

\* remove_device with the pop left out
remove_device_keeps(avail, device) == avail

\* Poller.remove_device: pops the node's entry when there is one
remove_device(avail, device) ==
    SelectSeq(avail, LAMBDA u : u.device.device_node # device.device_node)

\* create_device without the removal of the node's old entry
create_device_appends(avail, device, mt, f) ==
    LET made == USBDrive(device, mt, f)
    IN  IF made.exc # NoExc
        THEN [avail |-> avail, exc |-> made.exc]
        ELSE [avail |-> Append(avail, made.usb), exc |-> NoExc]

\* Poller.create_device: the registry afterwards and the exception USBDrive(device)
\* raised, if any (the old entry is removed before the constructor runs)
create_device(avail, device, mt, f) ==
    LET cleared == IF device.device_node \in keys(avail)
                   THEN remove_device(avail, device)
                   ELSE avail
        made == USBDrive(device, mt, f)
    IN  IF made.exc # NoExc
        THEN [avail |-> cleared, exc |-> made.exc]
        ELSE [avail |-> Append(cleared, made.usb), exc |-> NoExc]

----------------------------------------------------------------------------
(* The environment: mounts appear and disappear. *)

\* the mount location a line of /proc/mounts names (None for a line with one field)
MountPath(l) ==
    LET parts == split(l, " ")
    IN  IF Len(parts) < 2 THEN None
        ELSE replace(parts[2], <<"\\", "0", "4", "0">>, <<" ">>)

\* the mount table without the lines of the mount at path p
WithoutLines(mt, p) == SelectSeq(mt, LAMBDA l : MountPath(l) # p)

\* a partition is mounted: its line is appended to /proc/mounts, its location becomes
\* a directory and a mount point
EnvMount(lines) ==
    /\ Len(mtab) < MaxMtab
    /\ \E l \in lines :
        /\ \A i \in 1..Len(mtab) : mtab[i] # l
        /\ mtab' = Append(mtab, l)
        /\ fs' = [dirs |-> fs.dirs \cup {MountPath(l)}, mounts |-> fs.mounts \cup {MountPath(l)}]
    /\ UNCHANGED << dev_queue, mon, mon_log, lastRaw, nevents, device_avail, poller,
                    drive_log, hist, drive, ret >>

\* a partition is unmounted (umount): its line leaves /proc/mounts and its location
\* stops being a mount point; the directory stays
EnvUnmount ==
    /\ \E p \in fs.mounts :
        /\ mtab' = WithoutLines(mtab, p)
        /\ fs' = [fs EXCEPT !.mounts = @ \ {p}]
    /\ UNCHANGED << dev_queue, mon, mon_log, lastRaw, nevents, device_avail, poller,
                    drive_log, hist, drive, ret >>

\* a directory on which nothing is mounted is removed (rmdir)
EnvRmdir ==
    /\ \E p \in (fs.dirs \ fs.mounts) \ {RootDir} :
        fs' = [fs EXCEPT !.dirs = @ \ {p}]
    /\ UNCHANGED << dev_queue, mon, mon_log, lastRaw, nevents, device_avail, poller,
                    drive_log, hist, mtab, drive, ret >>

----------------------------------------------------------------------------
(* USBMonitor: start, enumeration of the partitions present, delivery of raw events. *)

\* start_polling (mode "sync") or start_asynchronous_polling (the observer variant the
\* imports select); `present` is what context.list_devices returns
MonStart(modes, presents) ==
    /\ mon.pc = "new"
    /\ \E m \in modes, present \in presents :
        mon' = [mon EXCEPT !.pc = "enum", !.mode = m, !.async_mode = (m # "sync"),
                           !.todo = present]
    /\ UNCHANGED << dev_queue, mon_log, lastRaw, nevents, device_avail, poller,
                    drive_log, hist, mtab, fs, drive, ret >>

\* where control goes once the enumeration or a handler is over: the test of the
\* synchronous loop (line 80), or back to the observer waiting for the next event
LoopEntry(mode) == IF mode = "sync" THEN "top" ELSE "listening"

\* add_pre_ejected_devices: one iteration of its loop, up to the call of dev_queue.put
MonEnum ==
    /\ mon.pc = "enum"
    /\ IF mon.todo = << >>
       THEN mon' = [mon EXCEPT !.pc = LoopEntry(mon.mode)]
       ELSE LET device == Head(mon.todo)
                puts == IF device.ID_BUS = BusUsb THEN check_action("add", device) ELSE << >>
            IN  mon' = [mon EXCEPT !.todo = Tail(mon.todo),
                                   !.pending = IF puts = << >> THEN None ELSE puts[1],
                                   !.pc = IF puts = << >> THEN "enum" ELSE "putting",
                                   !.after = "enum"]
    /\ UNCHANGED << dev_queue, mon_log, lastRaw, nevents, device_avail, poller,
                    drive_log, hist, mtab, fs, drive, ret >>

\* `while not self._destruct` finds the flag clear: the loop calls self._monitor.poll
MonLoopTop ==
    /\ mon.pc = "top"
    /\ ~mon.destruct
    /\ mon' = [mon EXCEPT !.pc = "listening"]
    /\ UNCHANGED << dev_queue, mon_log, lastRaw, nevents, device_avail, poller,
                    drive_log, hist, mtab, fs, drive, ret >>

\* `while not self._destruct` finds the flag set: start_polling returns
MonLoopExit ==
    /\ mon.pc = "top"
    /\ mon.destruct
    /\ mon' = [mon EXCEPT !.pc = "exited"]
    /\ UNCHANGED << dev_queue, mon_log, lastRaw, nevents, device_avail, poller,
                    drive_log, hist, mtab, fs, drive, ret >>

\* self._monitor.poll(timeout=1) raises KeyboardInterrupt or StopIteration: the
\* handler calls self.destroy(), which in synchronous mode sets _destruct and no
\* more, and the loop goes back to its test
MonPollInterrupt ==
    /\ mon.pc = "listening"
    /\ mon.mode = "sync"
    /\ mon' = [mon EXCEPT !.pc = "top", !.destruct = TRUE]
    /\ UNCHANGED << dev_queue, mon_log, lastRaw, nevents, device_avail, poller,
                    drive_log, hist, mtab, fs, drive, ret >>

\* KeyboardInterrupt reaches the thread inside start_polling or
\* start_asynchronous_polling anywhere but in the poll of line 83: during the
\* enumeration, at the test of the loop, or in the handler of lines 87..91 with its
\* blocking dev_queue.put, none of which the try of line 81 covers.  The exception
\* leaves the method: the event being put is dropped and _destruct stays as it is.
\* The handlers of an observer run on the observer's side and are not interrupted.
MonInterrupt ==
    /\ IF mon.mode = "sync"
       THEN mon.pc \in {"enum", "top", "putting"}
       ELSE mon.pc = "enum" \/ (mon.pc = "putting" /\ mon.after = "enum")
    /\ mon' = [mon EXCEPT !.pc = "raised", !.pending = None]
    /\ UNCHANGED << dev_queue, mon_log, lastRaw, nevents, device_avail, poller,
                    drive_log, hist, mtab, fs, drive, ret >>

\* self._monitor.poll(timeout=1) returns None: nothing is handled and the synchronous
\* loop goes back to its test
MonPollTimeout ==
    /\ mon.pc = "listening"
    /\ mon.mode = "sync"
    /\ mon' = [mon EXCEPT !.pc = "top"]
    /\ UNCHANGED << dev_queue, mon_log, lastRaw, nevents, device_avail, poller,
                    drive_log, hist, mtab, fs, drive, ret >>

\* the hotplug subsystem delivers one raw event to the waiting poll or observer and
\* the handler of the mode runs, up to the call of dev_queue.put.  No handler reads
\* _destruct: an event that arrives after destroy() is handled like any other.
MonDeliver(events, max) ==
    /\ mon.pc = "listening"
    /\ nevents < max
    /\ \E dev \in events :
        LET h == handle(mon.mode, mon.only_removable, dev)
        IN  /\ lastRaw' = dev
            /\ mon_log' = h.notes
            /\ mon' = [mon EXCEPT !.pending = IF h.puts = << >> THEN None ELSE h.puts[1],
                                  !.pc = IF h.puts = << >> THEN LoopEntry(mon.mode)
                                         ELSE "putting",
                                  !.after = LoopEntry(mon.mode)]
    /\ nevents' = nevents + 1
    /\ UNCHANGED << dev_queue, device_avail, poller, drive_log, hist, mtab, fs, drive, ret >>

\* USBMonitor.destroy, called from another thread (or by the loop on
\* KeyboardInterrupt) in any state: sets _destruct and, in asynchronous mode, calls
\* self._async_monitor.stop().  What stop() does is pyudev's business and differs
\* between the observer classes: the observer, if there is one, stops delivering
\* (a handler that is running finishes its put first) or goes on as before.
MonDestroy ==
    /\ \E stops \in (IF mon.async_mode THEN BOOLEAN ELSE {FALSE}) :
        mon' = [mon EXCEPT
                  !.destruct = TRUE,
                  !.pc = IF stops /\ mon.pc = "listening" THEN "exited" ELSE @,
                  !.after = IF stops /\ mon.pc = "putting" /\ mon.after = "listening"
                            THEN "exited" ELSE @]
    /\ UNCHANGED << dev_queue, mon_log, lastRaw, nevents, device_avail, poller,
                    drive_log, hist, mtab, fs, drive, ret >>

\* dev_queue.put blocks while the queue holds maxsize items
put_blocks(q) == Len(q) >= QueueMax

\* dev_queue.put((action, device)) in check_action: blocks while the queue is full
MonPut ==
    /\ mon.pc = "putting"
    /\ ~put_blocks(dev_queue)
    /\ dev_queue' = Append(dev_queue, mon.pending)
    /\ mon' = [mon EXCEPT !.pending = None,
                          !.pc = mon.after]
    /\ hist' = [hist EXCEPT !.last[mon.pending.device.device_node] = mon.pending.action]
    /\ UNCHANGED << mon_log, lastRaw, nevents, device_avail, poller, drive_log,
                    mtab, fs, drive, ret >>

----------------------------------------------------------------------------
(* Poller.run, one step at a time.  dev_queue.get and the registry update that       *)
(* follows are two steps: other threads run in between and see the event gone from  *)
(* the queue and not yet applied.  The registry is touched by the Poller thread     *)
(* alone, so the refresh of one record and what its exception handler does are one  *)
(* step.                                                                             *)

Crashed(exc) == [poller EXCEPT !.pc = "crashed", !.exc = exc]

\* `while not self._destruct`
PollerTop ==
    /\ poller.pc = "top"
    /\ poller' = [poller EXCEPT !.pc = IF poller.destruct THEN "stopped" ELSE "drain"]
    /\ UNCHANGED << dev_queue, mon, mon_log, lastRaw, nevents, device_avail, drive_log,
                    hist, mtab, fs, drive, ret >>

\* `while dev_queue.qsize() > 0` and dev_queue.get: the Poller holds the event taken
PollerDrainOne ==
    /\ poller.pc = "drain"
    /\ Len(dev_queue) > 0
    /\ dev_queue' = Tail(dev_queue)
    /\ poller' = [poller EXCEPT !.pc = "apply", !.got = Head(dev_queue)]
    /\ UNCHANGED << mon, mon_log, lastRaw, nevents, device_avail, drive_log, hist,
                    mtab, fs, drive, ret >>

\* the create_device / remove_device the event taken leads to.  An exception out of
\* USBDrive(device) is caught by no handler of run.
PollerApply ==
    /\ poller.pc = "apply"
    /\ LET action == poller.got.action
           device == poller.got.device
           made == create_device(device_avail, device, mtab, fs)
           back == [poller EXCEPT !.pc = "drain", !.got = None]
       IN  IF action = "add"
           THEN /\ device_avail' = made.avail
                /\ poller' = IF made.exc # NoExc
                             THEN [Crashed(made.exc) EXCEPT !.got = None]
                             ELSE back
                /\ hist' = [hist EXCEPT
                              !.failed = @ \ {device.device_node},
                              !.replaced =
                                  IF device.device_node \in keys(device_avail)
                                  THEN LET k == CHOOSE i \in 1..Len(device_avail) :
                                                   device_avail[i].device.device_node
                                                       = device.device_node
                                       IN  << device_avail[k].storage_info >>
                                  ELSE None]
           ELSE IF action = "remove"
                THEN /\ device_avail' = remove_device(device_avail, device)
                     /\ poller' = back
                     /\ UNCHANGED hist
                ELSE /\ poller' = back
                     /\ UNCHANGED << device_avail, hist >>
    /\ UNCHANGED << dev_queue, mon, mon_log, lastRaw, nevents, drive_log, mtab, fs,
                    drive, ret >>

\* qsize() is 0: the for loop over device_avail.items() starts
PollerDrainDone ==
    /\ poller.pc = "drain"
    /\ Len(dev_queue) = 0
    /\ poller' = [poller EXCEPT !.pc = "refresh", !.it = 1]
    /\ UNCHANGED << dev_queue, mon, mon_log, lastRaw, nevents, device_avail, drive_log,
                    hist, mtab, fs, drive, ret >>

\* one iteration of the for loop, first part (lines 299..302): the record is resolved
\* if it is not mounted yet.  An exception out of get_device_mount_point leaves the
\* try body and run uncaught.  A record still not mounted is done with.
PollerResolve ==
    /\ poller.pc = "refresh"
    /\ poller.it <= Len(device_avail)
    /\ LET u == device_avail[poller.it]
           r == IF ~u.is_mounted
                THEN get_device_mount_point(u, mtab, fs)
                ELSE Result(u, None, NoExc, << >>)
       IN  /\ device_avail' = [device_avail EXCEPT ![poller.it] = r.usb]
           /\ poller' = IF r.exc # NoExc THEN Crashed(r.exc)
                        ELSE IF r.usb.is_mounted THEN [poller EXCEPT !.pc = "exists"]
                        ELSE [poller EXCEPT !.it = @ + 1]
           /\ hist' = [hist EXCEPT !.raised = r.exc]
    /\ drive_log' = << >>
    /\ UNCHANGED << dev_queue, mon, mon_log, lastRaw, nevents, mtab, fs, drive, ret >>

\* second part: get_storage_information is entered and tests the mount path (lines
\* 213, 214).  When the path is missing it returns None and get_free_space_changes
\* (line 304) runs on the snapshots as they are; the record is done with.
PollerExists ==
    /\ poller.pc = "exists"
    /\ LET u == device_avail[poller.it]
       IN  IF no_mount_path(u, fs)
           THEN LET r == get_free_space_changes(u, TRUE)
                IN  /\ poller' = [poller EXCEPT !.pc = "refresh", !.it = @ + 1]
                    /\ drive_log' = r.notes
           ELSE /\ poller' = [poller EXCEPT !.pc = "usage"]
                /\ drive_log' = drive_log
    /\ UNCHANGED << dev_queue, mon, mon_log, lastRaw, nevents, device_avail, hist, mtab,
                    fs, drive, ret >>

\* third part: the snapshot is shifted and shutil.disk_usage called (lines 218..220),
\* then get_free_space_changes (line 304).  AttributeError is handled by
\* remove_device, which changes the size of the dict being iterated: the iterator's
\* next step raises RuntimeError, which no handler of run catches.  Any other
\* exception leaves the try body and run uncaught.
PollerUsage(outcomes) ==
    /\ poller.pc = "usage"
    /\ LET u == device_avail[poller.it]
       IN  \E outcome \in disk_usage(fs, u.mount_point, outcomes) :
            LET r1 == sample_storage(u, outcome)
                r == IF r1.exc = NoExc THEN get_free_space_changes(r1.usb, TRUE) ELSE r1
            IN  /\ device_avail' = IF r.exc = "AttributeError"
                                   THEN remove_device(device_avail, r.usb.device)
                                   ELSE [device_avail EXCEPT ![poller.it] = r.usb]
                /\ poller' = IF r.exc = NoExc
                             THEN [poller EXCEPT !.pc = "refresh", !.it = @ + 1]
                             ELSE IF r.exc = "AttributeError" THEN Crashed("RuntimeError")
                             ELSE Crashed(r.exc)
                /\ drive_log' = r.notes
                /\ hist' = [hist EXCEPT !.raised = r.exc,
                                        !.failed = IF r.exc # NoExc
                                                   THEN @ \cup {u.device.device_node}
                                                   ELSE @]
    /\ UNCHANGED << dev_queue, mon, mon_log, lastRaw, nevents, mtab, fs, drive, ret >>

\* the for loop is exhausted: sleep(POLL_SLEEP_TIME)
PollerRefreshDone ==
    /\ poller.pc = "refresh"
    /\ poller.it > Len(device_avail)
    /\ poller' = [poller EXCEPT !.pc = "sleep"]
    /\ UNCHANGED << dev_queue, mon, mon_log, lastRaw, nevents, device_avail, drive_log,
                    hist, mtab, fs, drive, ret >>

\* sleep returns
PollerWake ==
    /\ poller.pc = "sleep"
    /\ poller' = [poller EXCEPT !.pc = "top"]
    /\ UNCHANGED << dev_queue, mon, mon_log, lastRaw, nevents, device_avail, drive_log,
                    hist, mtab, fs, drive, ret >>

\* Poller.destroy, called from the main thread in any state of the Poller thread
PollerDestroy ==
    /\ poller' = [poller EXCEPT !.destruct = TRUE]
    /\ UNCHANGED << dev_queue, mon, mon_log, lastRaw, nevents, device_avail, drive_log,
                    hist, mtab, fs, drive, ret >>

----------------------------------------------------------------------------
(* The whole system: monitor, queue, Poller and the mounts of two partitions. *)

\* USBMonitor(only_removable), Poller() and poller.start()
InitWith(only_removable, mt, f) ==
    /\ dev_queue = << >>
    /\ mon = [ pc |-> "new", only_removable |-> only_removable, mode |-> "none",
               async_mode |-> FALSE, destruct |-> FALSE, pending |-> None,
               todo |-> << >>, after |-> "enum" ]
    /\ mon_log = << >>
    /\ lastRaw = None
    /\ nevents = 0
    /\ device_avail = << >>
    /\ poller = [ pc |-> "top", destruct |-> FALSE, it |-> 1, exc |-> NoExc,
                  got |-> None ]
    /\ drive_log = << >>
    /\ hist = [ last |-> [n \in Nodes |-> "none"], raised |-> NoExc, failed |-> {},
                replaced |-> None ]
    /\ mtab = mt
    /\ fs = f
    /\ drive = None
    /\ ret = None

\* raw events of the two USB partitions, each carrying a filesystem
SysEvents == { Device(n, a, FsExt4, BusUsb) : n \in Nodes, a \in {"add", "remove"} }

\* what list_devices may return at start
SysPresent == { << >>, << Device(sdb1, NoAction, FsExt4, BusUsb) >> }

\* what shutil.disk_usage may do on a path that is there
SysOutcomes ==
    { Returns(Usage(2000000, 1000000)), Raises("AttributeError") }

\* nothing is mounted yet
NoMounts == [dirs |-> {}, mounts |-> {}]

Init == InitWith(TRUE, << >>, NoMounts)

\* the first partition is mounted when the program starts
InitMounted ==
    InitWith(TRUE, << LineSdb1 >>, [dirs |-> {MyDrive}, mounts |-> {MyDrive}])

PollerNext(outcomes) ==
    \/ PollerTop
    \/ PollerDrainOne
    \/ PollerApply
    \/ PollerDrainDone
    \/ PollerResolve
    \/ PollerExists
    \/ PollerUsage(outcomes)
    \/ PollerRefreshDone
    \/ PollerWake

\* the observer variants: which one runs is decided by what pyudev.glib imports
AsyncModes == Modes \ {"sync"}

\* start_asynchronous_polling has returned: the enumeration and its puts are over
Started ==
    mon.pc \notin {"new", "enum", "raised"} /\ ~(mon.pc = "putting" /\ mon.after = "enum")

\* monitor.destroy() once the input loop of __main__ is left
MainStopMonitor == Started /\ ~mon.destruct /\ MonDestroy

\* poller.destroy(), after monitor.destroy() has returned
MainStopPoller == mon.destruct /\ ~poller.destruct /\ PollerDestroy

Next ==
    \/ MonStart(AsyncModes, SysPresent)
    \/ MonEnum
    \/ MonInterrupt
    \/ MonDeliver(SysEvents, MaxEvents)
    \/ MonPut
    \/ MainStopMonitor
    \/ PollerNext(SysOutcomes)
    \/ MainStopPoller
    \/ EnvMount({LineSdb1})
    \/ EnvUnmount
    \/ EnvRmdir

Spec == Init /\ [][Next]_vars

----------------------------------------------------------------------------
(* The queue under a burst: the synchronous monitor delivers 'add' events of one     *)
(* mounted partition while the Poller drains and refreshes.  A thread blocked in put *)
(* is woken once the queue has room, hence the weak fairness of MonPut.              *)

\* the events a producing context may put: one partition added and removed
BurstEvents == { Device(sdb1, a, FsExt4, BusUsb) : a \in {"add", "remove"} }

\* the raw events of a burst of one kind: one partition added over and over
AddEvents == { Device(sdb1, "add", FsExt4, BusUsb) }

NextQueue ==
    \/ MonStart({"sync"}, { << >> })
    \/ MonEnum
    \/ MonLoopTop
    \/ MonPollTimeout
    \/ MonPollInterrupt
    \/ MonInterrupt
    \/ MonDeliver(AddEvents, MaxBurst)
    \/ MonPut
    \/ MonLoopExit
    \/ PollerNext({ Returns(Usage(2000000, 1000000)) })

SpecQueue == InitMounted /\ [][NextQueue]_vars /\ WF_vars(MonPut)

----------------------------------------------------------------------------
(* The monitor alone: either setting of only_removable, each delivery mechanism, raw *)
(* events of every action with and without a filesystem type and a USB bus.  No      *)
(* Poller runs, so what the handlers put stays on the queue.                         *)

Actions == {"add", "remove", "change", "move"}

RawEvents == { Device(sdb1, a, t, b) : a \in Actions, t \in {FsExt4, None}, b \in {BusUsb, BusAta} }

\* what list_devices may return at start: a device enumerated has no action
MonPresent == { << >>, << Device(sdb10, NoAction, None, BusUsb) >> }

InitMonitor == \E only_removable \in BOOLEAN : InitWith(only_removable, << >>, NoMounts)

NextMonitor ==
    \/ MonStart(Modes, MonPresent)
    \/ MonEnum
    \/ MonLoopTop
    \/ MonPollTimeout
    \/ MonPollInterrupt
    \/ MonInterrupt
    \/ MonDeliver(RawEvents, MaxRaw)
    \/ MonPut
    \/ MonDestroy
    \/ MonLoopExit

SpecMonitor == InitMonitor /\ [][NextMonitor]_vars

----------------------------------------------------------------------------
(* One USBDrive object under the calls the Poller makes on it, for every mount table *)
(* of up to MaxMtab lines and every state of the mount locations.                    *)

\* the value of a direct call: what was called, with what argument, what came back
Called(call, arg, r) == [call |-> call, arg |-> arg, value |-> r.ret, exc |-> r.exc]

DriveLines == {LineSdb1, LineSdb10, LineBare, LineRoot}

\* the mount tables: sequences of distinct lines
DriveMtabs ==
    { mt \in UNION { [1..k -> DriveLines] : k \in 0..MaxMtab } :
        \A i, j \in 1..Len(mt) : i # j => mt[i] # mt[j] }

\* the filesystems: / is a mount point; each other location is absent, a plain
\* directory or a mount point
DriveFs ==
    { [dirs |-> d \cup {RootDir}, mounts |-> m \cup {RootDir}] :
        d \in SUBSET {MyDrive, MntUsb}, m \in SUBSET {MyDrive, MntUsb} } 

\* what shutil.disk_usage may return on a path that is there
DriveOutcomes ==
    { Returns(Usage(2000000, f)) : f \in {500, 1500, 998000, 1000000} }

\* get_storage_information has passed its test of the mount path and has not called
\* shutil.disk_usage yet
InCall == [call |-> "get_storage_information", arg |-> None, value |-> None,
           exc |-> "running"]
MidCall == ret # None /\ ret.exc = "running"

InitDrive ==
    \E mt \in DriveMtabs, f \in DriveFs :
        /\ f.mounts \subseteq f.dirs
        /\ InitWith(TRUE, mt, f)

\* USBDrive(device)
DriveNew ==
    /\ drive = None /\ ret = None
    /\ \E n \in Nodes :
        LET r == USBDrive(Device(n, "add", FsExt4, BusUsb), mtab, fs)
        IN  /\ drive' = IF r.exc = NoExc THEN r.usb ELSE None
            /\ ret' = Called("USBDrive", n, r)
            /\ drive_log' = r.notes
    /\ UNCHANGED << dev_queue, mon, mon_log, lastRaw, nevents, device_avail, poller,
                    hist, mtab, fs >>

\* usb.get_device_mount_point(), called while the record is not mounted
DriveResolve ==
    /\ drive # None /\ ~drive.is_mounted /\ ~MidCall
    /\ LET r == get_device_mount_point(drive, mtab, fs)
       IN  /\ drive' = r.usb
           /\ ret' = Called("get_device_mount_point", None, r)
           /\ drive_log' = r.notes
    /\ UNCHANGED << dev_queue, mon, mon_log, lastRaw, nevents, device_avail, poller,
                    hist, mtab, fs >>

\* usb.get_storage_information(), called while the record is mounted: the test of
\* the mount path (lines 213, 214), after which the call returns None or goes on
DriveExists ==
    /\ drive # None /\ drive.is_mounted /\ ~MidCall
    /\ ret' = IF no_mount_path(drive, fs)
              THEN Called("get_storage_information", None,
                          Result(drive, None, NoExc, << >>))
              ELSE InCall
    /\ drive_log' = << >>
    /\ UNCHANGED << dev_queue, mon, mon_log, lastRaw, nevents, device_avail, poller,
                    hist, mtab, fs, drive >>

\* the rest of the call (lines 218..220): the shift and shutil.disk_usage
DriveUsage ==
    /\ MidCall
    /\ \E outcome \in disk_usage(fs, drive.mount_point, DriveOutcomes) :
        LET r == sample_storage(drive, outcome)
        IN  /\ drive' = r.usb
            /\ ret' = Called("get_storage_information", None, r)
            /\ drive_log' = r.notes
    /\ UNCHANGED << dev_queue, mon, mon_log, lastRaw, nevents, device_avail, poller,
                    hist, mtab, fs >>

\* usb.get_free_space_changes(notify_changes)
DriveDelta ==
    /\ drive # None /\ drive.is_mounted /\ ~MidCall
    /\ \E notify_changes \in BOOLEAN :
        LET r == get_free_space_changes(drive, notify_changes)
        IN  /\ drive' = r.usb
            /\ ret' = Called("get_free_space_changes", notify_changes, r)
            /\ drive_log' = r.notes
    /\ UNCHANGED << dev_queue, mon, mon_log, lastRaw, nevents, device_avail, poller,
                    hist, mtab, fs >>

NextDrive ==
    \/ DriveNew
    \/ DriveResolve
    \/ DriveExists
    \/ DriveUsage
    \/ DriveDelta
    \/ EnvUnmount
    \/ EnvRmdir

SpecDrive == InitDrive /\ [][NextDrive]_vars

----------------------------------------------------------------------------
(* The system from start to stop with its threads scheduled fairly: the monitor      *)
(* finishes the enumeration it started, a put goes through once the queue has room,  *)
(* and the Poller thread keeps taking steps while it has one to take.  The mount     *)
(* table may show a line that names a partition and nothing else.                    *)

\* a line with a single field appears in /proc/mounts
EnvBareLine ==
    /\ Len(mtab) < MaxMtab
    /\ \A i \in 1..Len(mtab) : mtab[i] # LineBare
    /\ mtab' = Append(mtab, LineBare)
    /\ UNCHANGED << dev_queue, mon, mon_log, lastRaw, nevents, device_avail, poller,
                    drive_log, hist, fs, drive, ret >>

\* what list_devices may return at start: nothing, or a USB partition without a
\* filesystem type
LivePresent == { << >>, << Device(sdb1, NoAction, None, BusUsb) >> }

NextLive ==
    \/ MonStart({"sync"}, LivePresent)
    \/ MonEnum
    \/ MonLoopTop
    \/ MonPollTimeout
    \/ MonPollInterrupt
    \/ MonInterrupt
    \/ MonDeliver(SysEvents, MaxEvents)
    \/ MonPut
    \/ MonLoopExit
    \/ PollerNext(SysOutcomes)
    \/ PollerDestroy
    \/ EnvMount({LineSdb1})
    \/ EnvBareLine
    \/ EnvUnmount
    \/ EnvRmdir

SpecLive ==
    /\ Init /\ [][NextLive]_vars
    /\ WF_vars(MonEnum) /\ WF_vars(MonPut) /\ WF_vars(PollerNext(SysOutcomes))

----------------------------------------------------------------------------
(* The Poller being stopped while events keep coming: any context may call           *)
(* check_action at any time, as often as it likes; the Poller thread keeps taking    *)
(* steps while it has one to take.                                                   *)

\* a producing context calls check_action(dev.action, dev) and its put goes through
Produce(events) ==
    /\ \E dev \in events :
        LET puts == check_action(dev.action, dev)
        IN  /\ puts # << >>
            /\ ~put_blocks(dev_queue)
            /\ dev_queue' = Append(dev_queue, puts[1])
            /\ hist' = [hist EXCEPT !.last[dev.device_node] = dev.action]
    /\ UNCHANGED << mon, mon_log, lastRaw, nevents, device_avail, poller, drive_log,
                    mtab, fs, drive, ret >>

\* shutil.disk_usage succeeds
UsageOnly == { Returns(Usage(2000000, 1000000)) }

NextStop ==
    \/ Produce(BurstEvents)
    \/ PollerNext(UsageOnly)
    \/ PollerDestroy

SpecStop == InitMounted /\ [][NextStop]_vars /\ WF_vars(PollerNext(UsageOnly))

----------------------------------------------------------------------------
(* The synchronous monitor and the Poller being shut down under a burst of events:   *)
(* destroy may be called on either at any time.  The monitor thread and the Poller   *)
(* thread each keep taking steps while they have one to take.                        *)

NextSync ==
    \/ MonStart({"sync"}, { << >> })
    \/ MonEnum
    \/ MonLoopTop
    \/ MonPollTimeout
    \/ MonPollInterrupt
    \/ MonInterrupt
    \/ MonDeliver(AddEvents, MaxBurst)
    \/ MonPut
    \/ MonDestroy
    \/ MonLoopExit
    \/ PollerNext(UsageOnly)
    \/ PollerDestroy

SpecSync ==
    /\ InitMounted /\ [][NextSync]_vars
    /\ WF_vars(MonEnum) /\ WF_vars(MonPut)
    /\ WF_vars(MonLoopTop) /\ WF_vars(MonPollTimeout) /\ WF_vars(MonLoopExit)
    /\ WF_vars(PollerNext(UsageOnly))

----------------------------------------------------------------------------
(* The refresh phase over a partition whose free space changes and whose mount comes *)
(* and goes.                                                                         *)

\* shutil.disk_usage returns one of two usages that differ in free space
TwoUsages == { Returns(Usage(2000000, free)) : free \in {1000000, 998000} }

NextRefresh ==
    \/ Produce(AddEvents)
    \/ PollerNext(TwoUsages)
    \/ EnvMount({LineSdb1})
    \/ EnvUnmount
    \/ EnvRmdir

SpecRefresh == Init /\ [][NextRefresh]_vars

----------------------------------------------------------------------------
(* Claims about the whole system (specification Spec). *)

\* C1: whenever every event put on dev_queue has been dequeued and applied (the queue
\* is empty) and run has not died of an exception, device_avail holds a record for a
\* device node exactly when the last event queued for that node was 'add'.
C1_RegistryFollowsLastEvent ==
    (poller.pc \notin {"crashed", "apply"} /\ dev_queue = << >>)
        => \A n \in Nodes : (n \in keys(device_avail)) <=> (hist.last[n] = "add")

\* C1 witness: all events delivered and drained, /dev/sdb10 added and removed again,
\* /dev/sdb1 tracked.
C1_Witness ==
    /\ poller.pc = "sleep" /\ dev_queue = << >> /\ nevents = MaxEvents
    /\ mon.pc = "listening"
    /\ hist.last[sdb10] = "remove" /\ sdb10 \notin keys(device_avail)
    /\ hist.last[sdb1] = "add" /\ sdb1 \in keys(device_avail)

\* C2: when the refresh of a record raises AttributeError, the record is evicted, the
\* for loop goes on with the remaining records and the Poller keeps running.
C2_EvictionContinuesCycle ==
    (hist.raised = "AttributeError")
        => /\ hist.failed \cap keys(device_avail) = {}
           /\ poller.pc # "crashed"

\* C3: when shutil.disk_usage raises FileNotFoundError for a record's mount point,
\* the Poller keeps running.
C3_NotFoundKeepsRunning ==
    (hist.raised = "FileNotFoundError") => poller.pc # "crashed"

\* C4: a device node whose sampling call has raised has no record in device_avail
\* until an 'add' for that node is dequeued.
C4_FailedSampleEvicted ==
    \A n \in hist.failed : n \notin keys(device_avail)

\* C16: device_avail holds at most one record per device node; and when an 'add' is
\* dequeued for a node that has a record and USBDrive(device) returns, the node's one
\* record afterwards is the new object: built from the device of the event, with
\* storage_info and prev_storage_info both None, whatever the old record held.
C16_OneFreshRecordPerNode ==
    /\ [](\A i, j \in 1..Len(device_avail) :
            device_avail[i].device.device_node = device_avail[j].device.device_node
                => i = j)
    /\ [][(/\ poller.pc = "apply"
            /\ poller.got.action = "add"
            /\ poller.got.device.device_node \in keys(device_avail)
            /\ poller'.pc \notin {"apply", "crashed"})
             => \E i \in 1..Len(device_avail') :
                   /\ device_avail'[i].device = poller.got.device
                   /\ device_avail'[i].storage_info = None
                   /\ device_avail'[i].prev_storage_info = None
                   /\ device_avail'[i].samples = 0]_vars

\* C16 witness: the latest 'add' applied replaced a record of /dev/sdb1 that held a
\* storage snapshot, and the record of /dev/sdb1 now holds none.
C16_Witness ==
    /\ hist.replaced # None /\ hist.replaced[1] # None
    /\ poller.pc = "drain"
    /\ \E i \in 1..Len(device_avail) :
          /\ device_avail[i].device.device_node = sdb1
          /\ device_avail[i].is_mounted
          /\ device_avail[i].storage_info = None
          /\ device_avail[i].prev_storage_info = None

----------------------------------------------------------------------------
(* Claims about the queue (specification SpecQueue). *)

\* C5: dev_queue never holds more than 10 items; while 10 items are pending a put
\* in progress stays blocked (only a get by the Poller changes that); and a put in
\* progress does complete once the queue has room: the producer gets past the put
\* with its item inserted, it does not leave start_polling without it.
C5_QueueBounded ==
    /\ [](Len(dev_queue) <= QueueMax)
    /\ [][(mon.pc = "putting" /\ Len(dev_queue) = QueueMax)
             => (mon'.pc = "putting" /\ Len(dev_queue') <= Len(dev_queue))]_vars
    /\ ((mon.pc = "putting" /\ Len(dev_queue) < QueueMax)
            ~> (mon.pc \notin {"putting", "raised"}))

----------------------------------------------------------------------------
(* Claims about the monitor's handlers (specification SpecMonitor). *)

\* a device that came from the monitor (a live event) carries an action; one that
\* add_pre_ejected_devices enumerated carries none
Live(device) == device.action # NoAction

\* the items handed to dev_queue.put so far that are still pending or being put
Queued ==
    { dev_queue[i] : i \in 1..Len(dev_queue) }
        \cup (IF mon.pc = "putting" THEN {mon.pending} ELSE {})

\* C9: a live event whose device has no ID_FS_TYPE produces no notification and
\* nothing is put on dev_queue for it, whatever the delivery mechanism.
C9_NoFilesystemDiscarded ==
    /\ (lastRaw # None /\ lastRaw.ID_FS_TYPE = None) => mon_log = << >>
    /\ \A item \in Queued : Live(item.device) => item.device.ID_FS_TYPE # None

\* C10 as claimed: in removable-only mode a live event with a filesystem type and a
\* bus other than "usb" still produces a notification, and is never queued.
C10_NotifiedBeforeBusFilter ==
    /\ (lastRaw # None /\ lastRaw.ID_FS_TYPE # None /\ mon.only_removable
            /\ lastRaw.ID_BUS # BusUsb)
         => mon_log # << >>
    /\ mon.only_removable
         => \A item \in Queued :
               (Live(item.device) /\ item.device.ID_FS_TYPE # None)
                   => item.device.ID_BUS = BusUsb

\* C10 amended: the bus test comes before the notification: in removable-only mode a
\* live event with a filesystem type and a bus other than "usb" produces no
\* notification, and is never queued.
C10_BusFilterBeforeNotification ==
    /\ (lastRaw # None /\ lastRaw.ID_FS_TYPE # None /\ mon.only_removable
            /\ lastRaw.ID_BUS # BusUsb)
         => mon_log = << >>
    /\ mon.only_removable
         => \A item \in Queued :
               (Live(item.device) /\ item.device.ID_FS_TYPE # None)
                   => item.device.ID_BUS = BusUsb

\* C10 witness: removable-only mode, the latest raw event is an 'add' with a
\* filesystem type on a non-USB bus, and an earlier USB 'add' was queued.
C10_Witness ==
    /\ mon.only_removable /\ mon.pc = "listening"
    /\ lastRaw # None /\ lastRaw.ID_FS_TYPE # None /\ lastRaw.ID_BUS = BusAta
    /\ lastRaw.action = "add"
    /\ \E item \in Queued : Live(item.device)


----------------------------------------------------------------------------
(* Claims about one USBDrive (specification SpecDrive). *)

\* C6: mount resolution accepts a line of the mount table only if the line's first
\* field equals the record's device node: whenever a call sets is_mounted, the mount
\* table holds a line whose first field is the device node and whose location is the
\* mount point set.
C6_ExactNodeMatch ==
    [][(drive' # None /\ drive'.is_mounted /\ (drive = None \/ ~drive.is_mounted))
          => \E i \in 1..Len(mtab) :
                /\ FirstField(mtab[i]) = drive'.device.device_node
                /\ MountPath(mtab[i]) = drive'.mount_point]_vars

\* C7: with both snapshots present get_free_space_changes returns previous.free minus
\* current.free; with notify_changes it emits one notification when that is not 0,
\* "Size Added" with the delta when it is positive, "Size Removed" with its negation
\* when it is negative; otherwise it emits none.
C7_DeltaAndLabel ==
    (/\ ret # None /\ ret.call = "get_free_space_changes"
     /\ drive.prev_storage_info # None /\ drive.storage_info # None)
        => LET delta == drive.prev_storage_info.free - drive.storage_info.free
           IN  /\ ret.value = delta
               /\ ret.exc = NoExc
               /\ drive_log =
                    IF ret.arg /\ delta > 0
                    THEN << [ID_FS_LABEL |-> drive.ID_FS_LABEL, text |-> "Size Added",
                             size |-> delta] >>
                    ELSE IF ret.arg /\ delta < 0
                         THEN << [ID_FS_LABEL |-> drive.ID_FS_LABEL,
                                  text |-> "Size Removed", size |-> -delta] >>
                         ELSE << >>

\* C7 witness: previous free 500 and current free 1500, notification requested.
C7_Witness ==
    /\ ret # None /\ ret.call = "get_free_space_changes" /\ ret.arg
    /\ drive.prev_storage_info # None /\ drive.prev_storage_info.free = 500
    /\ drive.storage_info # None /\ drive.storage_info.free = 1500
    /\ ret.value = -1000

\* C8: while fewer than two successful samples have been taken for a record,
\* get_free_space_changes returns 0 for it.
C8_ZeroBeforeTwoSamples ==
    (drive # None /\ drive.samples < 2)
        => /\ get_free_space_changes(drive, FALSE).ret = 0
           /\ (ret.call = "get_free_space_changes" => ret.value = 0)

\* C8 witness: one successful sample, then a sampling call that raised after the
\* snapshot was shifted, then get_free_space_changes.
C8_Witness ==
    /\ drive # None /\ drive.samples = 1
    /\ drive.prev_storage_info # None
    /\ ret.call = "get_free_space_changes"

----------------------------------------------------------------------------
(* Claims about check_action and the agreement of the handlers (SpecMonitor). *)

\* the filters as every handler is meant to apply them: a filesystem type, and a
\* USB bus when only removable devices are wanted
PassesFilters(only_removable, dev) ==
    dev.ID_FS_TYPE # None /\ (only_removable => dev.ID_BUS = BusUsb)

\* C11: a raw event that passes the filters is handed to dev_queue.put exactly when
\* its action is 'add' or 'remove'; a 'change' or 'move' event leaves the queue and
\* the registry as they were, and nothing but 'add' and 'remove' items is ever queued.
C11_QueuedIffAddOrRemove ==
    /\ [](\A item \in Queued : item.action \in {"add", "remove"})
    /\ [][(nevents' = nevents + 1 /\ PassesFilters(mon.only_removable, lastRaw'))
             => /\ (lastRaw'.action \in {"add", "remove"})
                     <=> (mon'.pc = "putting"
                          /\ mon'.pending = [action |-> lastRaw'.action, device |-> lastRaw'])
                /\ (lastRaw'.action \in {"change", "move"})
                     => (mon'.pc # "putting" /\ mon'.pending = None)
                /\ dev_queue' = dev_queue
                /\ device_avail' = device_avail]_vars

\* C11 witness: an 'add' that passed the filters is on the queue and the latest raw
\* event, a 'change' that passed them too, was notified and not queued.
C11_Witness ==
    /\ lastRaw # None /\ lastRaw.action = "change"
    /\ PassesFilters(mon.only_removable, lastRaw)
    /\ mon_log # << >>
    /\ mon.pc = "listening"
    /\ Len(dev_queue) = 1 /\ dev_queue[1].action = "add"

\* C12: for every raw event and either setting of only_removable, the handler of the
\* delivery mechanism in use takes the decisions the synchronous loop takes for the
\* same event: it notifies exactly when the loop would, and hands the event to
\* dev_queue.put exactly when the loop would.
C12_HandlersAgree ==
    [][(nevents' = nevents + 1)
         => LET sync == start_polling_event(mon.only_removable, lastRaw')
            IN  /\ (mon_log' # << >>) <=> (sync.notes # << >>)
                /\ (mon'.pc = "putting") <=> (sync.puts # << >>)
                /\ (mon'.pc = "putting") => (mon'.pending = sync.puts[1])]_vars

----------------------------------------------------------------------------
(* Claims about the running system (specification SpecLive). *)

\* C13: no live event is handled before the enumeration of the partitions present is
\* over; each partition enumerated whose bus is "usb" has an 'add' handed to
\* dev_queue.put, whether or not it has a filesystem type (an enumeration cut short
\* by KeyboardInterrupt handles no live event either); and once that 'add' is on the
\* queue, unless a 'remove' for the node is queued or Poller.destroy is called,
\* device_avail eventually holds a record for the node.
C13_PresentPartitionsTracked ==
    /\ [](lastRaw # None => (mon.todo = << >> /\ mon.pc # "enum"))
    /\ [][(mon' # mon /\ mon.pc = "enum" /\ mon'.pc # "raised" /\ mon.todo # << >>
                /\ Head(mon.todo).ID_BUS = BusUsb)
             => (mon'.pc = "putting"
                 /\ mon'.pending = [action |-> "add", device |-> Head(mon.todo)])]_vars
    /\ \A n \in Nodes :
          (\E i \in 1..Len(dev_queue) :
                /\ dev_queue[i].action = "add" /\ ~Live(dev_queue[i].device)
                /\ dev_queue[i].device.device_node = n)
             ~> (n \in keys(device_avail) \/ hist.last[n] = "remove" \/ poller.destruct)

\* C18: a line of /proc/mounts that names the device node and has no second field is
\* not an error: get_device_mount_point raises nothing out of the constructor in the
\* drain phase nor out of the refresh phase, and run goes on.
C18_MalformedLineIgnored ==
    ~(poller.pc = "crashed" /\ poller.exc = "IndexError")

\* C19: dev_queue changes only by a put of the monitor at its back or by a get of the
\* Poller at its front, so no event is lost, duplicated or reordered; the event the
\* Poller got is applied to device_avail by its next step ('add': the node has a
\* record, 'remove': it has none); and the events put are eventually all removed,
\* unless Poller.destroy is called.
C19_QueuedEventsApplied ==
    /\ [][dev_queue' # dev_queue
             => \/ /\ mon.pc = "putting"
                   /\ dev_queue' = Append(dev_queue, mon.pending)
                \/ /\ dev_queue # << >>
                   /\ dev_queue' = Tail(dev_queue)
                   /\ poller'.got = Head(dev_queue)]_vars
    /\ [][(poller.pc = "apply" /\ poller'.pc # "apply")
             => LET node == poller.got.device.device_node
                IN  (poller.got.action = "add") <=> (node \in keys(device_avail'))]_vars
    /\ (dev_queue # << >>) ~> (dev_queue = << >> \/ poller.destruct)

----------------------------------------------------------------------------
(* Claims about stopping the Poller (specification SpecStop). *)

\* C14: once Poller.destroy has set _destruct, run enters no drain phase from the top
\* of its loop, and the thread eventually ends, whatever is put on dev_queue in the
\* meantime.
C14_StopsAfterDestroy ==
    /\ [][(poller.destruct /\ poller.pc = "top") => poller'.pc # "drain"]_vars
    /\ poller.destruct ~> (poller.pc \in {"stopped", "crashed"})

----------------------------------------------------------------------------
(* Claims about stopping the synchronous monitor (specification SpecSync). *)

\* C15: in synchronous mode, once USBMonitor.destroy has set _destruct and
\* start_polling has been called, start_polling eventually returns (or is left by a
\* KeyboardInterrupt), also when dev_queue is full and the Poller has stopped.
C15_LoopExitsAfterDestroy ==
    (mon.destruct /\ mon.pc # "new") ~> (mon.pc \in {"exited", "raised"})

----------------------------------------------------------------------------
(* Further claims about one USBDrive (specification SpecDrive). *)

\* C17: prev_storage_info is the value storage_info had just before the latest
\* successful sample: a call of get_storage_information in which shutil.disk_usage
\* returned sets prev_storage_info to the old storage_info and storage_info to the
\* usage returned, and nothing else changes either snapshot; in particular a call in
\* which shutil.disk_usage raised leaves both as they were.
C17_PreviousIsValueBeforeLastSample ==
    [][(drive # None /\ drive' # None)
         => LET sampled == /\ ret'.call = "get_storage_information"
                           /\ ret'.exc = NoExc /\ ret'.value # None
                           /\ fs' = fs
            IN  /\ sampled => /\ drive'.prev_storage_info = drive.storage_info
                              /\ drive'.storage_info = ret'.value
                /\ ~sampled => /\ drive'.prev_storage_info = drive.prev_storage_info
                               /\ drive'.storage_info = drive.storage_info]_vars

----------------------------------------------------------------------------
(* Claims about the refresh phase (specification SpecRefresh). *)

\* C20: the refresh of a record emits a free-space notification only if it took a
\* fresh sample: when the record's mount point no longer exists, so that
\* get_storage_information returns without sampling, the refresh emits none.
C20_NotifiesOnlyAfterFreshSample ==
    [][(/\ poller.pc = "exists" /\ poller'.pc # "exists"
        /\ ~exists(fs, device_avail[poller.it].mount_point))
         => drive_log' = << >>]_vars

====
